---------------------------- MODULE Spec2Model ----------------------------
(***************************************************************************)
(* The tool-calling scripts of gpt-5-cfg-testing as one state machine.     *)
(*                                                                         *)
(* A session is one run of a script's main().  The five looping scripts    *)
(* (normal_functions, cfg_functions, email_triage, cfg_email_triage,       *)
(* price_compare) share one loop; simple_price makes one streamed request, *)
(* dispatches at most one tool call and makes one summary request.         *)
(*                                                                         *)
(* The remote inference service is the environment: it answers a request   *)
(* with any output list built from ServiceItems(script), gives every tool  *)
(* call a fresh call_id, or fails.  An exception nobody catches ends the   *)
(* process: pc = "Aborted" with the exception's name in fault.             *)
(***************************************************************************)
EXTENDS Integers, Sequences, FiniteSets, TLC

(***************************************************************************)
(* Bounds of the model.                                                    *)
(***************************************************************************)
\* Longest conversation log the service is asked to extend: a response is
\* only generated when its items and one result per tool call still fit.
MaxLog == 7
\* Most output items in one response.
MaxItems == 2

(***************************************************************************)
(* The scripts.                                                            *)
(***************************************************************************)
FunctionLoopScripts == {"normal_functions", "email_triage", "price_compare"}

CustomLoopScripts == {"cfg_functions", "cfg_email_triage"}

LoopScripts == FunctionLoopScripts \cup CustomLoopScripts

StreamScripts == {"simple_price"}

Scripts == LoopScripts \cup StreamScripts

\* The todo scripts keep a todos file and write no snapshot.
TodoScripts == {"normal_functions", "cfg_functions"}

SnapshotScripts == Scripts \ TodoScripts

\* The item type a script's loop looks for (the "continue" test of the loop).
ToolItemType(s) ==
    IF s \in FunctionLoopScripts THEN "function_call" ELSE "custom_tool_call"

\* tools = [...]: the names a script declares.
Declared(s) ==
    CASE s \in TodoScripts -> {"get_current_datetime", "add_todo"}
      [] s \in {"email_triage", "cfg_email_triage"} ->
             {"listUnreadThreads", "getCalendarAvailability"}
      [] s = "price_compare" -> {"getPrice", "getShipping"}
      [] s = "simple_price" -> {"checkPrice"}

(***************************************************************************)
(* Python values.                                                          *)
(***************************************************************************)
None == [py |-> "None"]

\* A file that does not exist, and a file holding a JSON list.
NoFile == [exists |-> FALSE, content |-> <<>>]

FileOf(lst) == [exists |-> TRUE, content |-> lst]

EmptyDict == [k \in {} |-> None]

HasKey(d, k) == k \in DOMAIN d

(***************************************************************************)
(* json.loads on the argument strings the service sends.                   *)
(***************************************************************************)
RawOpenBrace == "{"

RawEmpty == "{}"

RawPrice == "{\"store\": \"storeA\", \"sku\": \"N3-KEYBRD\"}"

RawShipping == "{\"store\": \"storeB\", \"sku\": \"N3-KEYBRD\", \"zip\": \"94507\"}"

RawShippingNoStore == "{\"store\": \"storeC\", \"sku\": \"N3-KEYBRD\", \"zip\": \"94507\"}"

RawLimit == "{\"limit\": 2}"

RawRange == "{\"range\": {\"startIso\": \"d0\", \"endIso\": \"d7\"}}"

RawTodoA == "{\"title\": \"call mom\", \"due\": null, \"priority\": \"high\"}"

RawTodoB == "{\"title\": \"pick up car\", \"due\": null, \"priority\": \"low\"}"

RawSku == "{\"sku\": \"SKU-001\"}"

\* json.loads(raw): the decoded mapping, or JSONDecodeError raised.
json_loads(raw) ==
    CASE raw = RawEmpty -> [raised |-> "none", value |-> EmptyDict]
      [] raw = RawPrice ->
             [raised |-> "none",
              value |-> [store |-> "storeA", sku |-> "N3-KEYBRD"]]
      [] raw = RawShipping ->
             [raised |-> "none",
              value |-> [store |-> "storeB", sku |-> "N3-KEYBRD", zip |-> "94507"]]
      [] raw = RawShippingNoStore ->
             [raised |-> "none",
              value |-> [store |-> "storeC", sku |-> "N3-KEYBRD", zip |-> "94507"]]
      [] raw = RawLimit -> [raised |-> "none", value |-> [limit |-> 2]]
      [] raw = RawRange ->
             [raised |-> "none",
              value |-> [range |-> [startIso |-> "d0", endIso |-> "d7"]]]
      [] raw = RawTodoA ->
             [raised |-> "none",
              value |-> [title |-> "call mom", due |-> None, priority |-> "high"]]
      [] raw = RawTodoB ->
             [raised |-> "none",
              value |-> [title |-> "pick up car", due |-> None, priority |-> "low"]]
      [] raw = RawSku -> [raised |-> "none", value |-> [sku |-> "SKU-001"]]
      [] OTHER -> [raised |-> "JSONDecodeError", value |-> None]

\* json.dumps(result): the serialised text of a value.
json_dumps(v) == <<"json", v>>


(***************************************************************************)
(* Mock data of the handlers.                                              *)
(***************************************************************************)
price_catalog ==
    ("storeA" :> ("N3-KEYBRD" :> [priceCents |-> 4999, inStock |-> TRUE]
                  @@ "OOS-ITEM" :> [priceCents |-> 12999, inStock |-> FALSE]))
    @@ ("storeB" :> ("N3-KEYBRD" :> [priceCents |-> 4799, inStock |-> TRUE]
                     @@ "OOS-ITEM" :> [priceCents |-> 9999, inStock |-> FALSE]))

shipping_table ==
    ("storeA" :> [method |-> "standard", shippingCents |-> 599, etaDays |-> 5])
    @@ ("storeB" :> [method |-> "expedited", shippingCents |-> 1299, etaDays |-> 2])

\* (subject and snippet of a thread are left out: no handler reads them)
unread_threads ==
    << [id |-> "t1", from |-> "alex@example.com", needsMeeting |-> TRUE],
       [id |-> "t2", from |-> "billing@example.com", needsMeeting |-> FALSE],
       [id |-> "t3", from |-> "sam@example.com", needsMeeting |-> TRUE] >>

\* all_slots: 7 days of half-hour slots from 9 to 17, every 4th one busy.  The
\* list is a fixed value of the session; it is kept by its description.
all_slots == [days |-> 7, slotsPerDay |-> 16, busyEvery |-> 4]

tz == "America/Los_Angeles"

\* What datetime.now().strftime(...) may read during a session.
Times == {"2026-11-02 09:00:00", "2026-11-02 09:00:01"}

\* What random.randint(500, 19999) may draw: the two ends of the range.
Prices == {500, 19999}

Min(a, b) == IF a <= b THEN a ELSE b

\* lst[:n] for n >= 0.
Slice(lst, n) == SubSeq(lst, 1, Min(n, Len(lst)))

(***************************************************************************)
(* call_tool of each script.  A handler returns                            *)
(*   [raised, result, todos]: the exception it raises ("none" when it      *)
(* returns), the value it returns, and the todos file after the call.      *)
(* env is what the handler reads from the clock or the random generator.   *)
(***************************************************************************)
Returns(v, td) == [raised |-> "none", result |-> v, todos |-> td]

Raises(e, td) == [raised |-> e, result |-> None, todos |-> td]

\* price_catalog.get(store, {}).get(sku)
CatalogGet(store, sku) ==
    IF store \in DOMAIN price_catalog /\ sku \in DOMAIN price_catalog[store]
    THEN price_catalog[store][sku]
    ELSE None

call_tool_price_compare(name, args, td) ==
    IF name = "getPrice" THEN
        IF ~HasKey(args, "store") \/ ~HasKey(args, "sku") THEN Raises("KeyError", td)
        ELSE LET rec == CatalogGet(args.store, args.sku) IN
             IF rec = None
             THEN Returns([store |-> args.store, sku |-> args.sku, priceCents |-> 0,
                           inStock |-> FALSE, currency |-> "USD"], td)
             ELSE Returns([store |-> args.store, sku |-> args.sku,
                           priceCents |-> rec.priceCents, inStock |-> rec.inStock,
                           currency |-> "USD"], td)
    ELSE IF name = "getShipping" THEN
        IF ~HasKey(args, "store") \/ ~HasKey(args, "sku") \/ ~HasKey(args, "zip")
        THEN Raises("KeyError", td)
        ELSE IF args.store \notin DOMAIN shipping_table
        THEN Raises("TypeError", td)
        ELSE LET rec == shipping_table[args.store] IN
             Returns([store |-> args.store, sku |-> args.sku,
                      shippingCents |-> rec.shippingCents, etaDays |-> rec.etaDays,
                      method |-> rec.method, currency |-> "USD"], td)
    ELSE Raises("ValueError", td)

call_tool_simple_price(name, args, td, env) ==
    IF name = "checkPrice" THEN
        IF ~HasKey(args, "sku") THEN Raises("KeyError", td)
        ELSE Returns([sku |-> args.sku, priceCents |-> env, currency |-> "USD"], td)
    ELSE Raises("ValueError", td)

\* int(args.get("limit", 10))
LimitOf(args) == IF HasKey(args, "limit") THEN args.limit ELSE 10

call_tool_email_triage(name, args, td) ==
    IF name = "listUnreadThreads"
    THEN Returns([threads |-> Slice(unread_threads, LimitOf(args))], td)
    ELSE IF name = "getCalendarAvailability" THEN
        IF ~HasKey(args, "range") THEN Raises("KeyError", td)
        ELSE Returns([slots |-> all_slots, tz |-> tz], td)
    ELSE Raises("ValueError", td)

call_tool_cfg_email_triage(name, args, td) ==
    IF name = "listUnreadThreads"
    THEN Returns([threads |-> Slice(unread_threads, LimitOf(args))], td)
    ELSE IF name = "getCalendarAvailability"
    THEN Returns([slots |-> all_slots, tz |-> tz], td)
    ELSE Raises("ValueError", td)

\* A slip of AddTodo: the file is written with the new todo alone.
AddTodoOverwriting(td, args) == FileOf(<<args>>)

\* The read-append-write of add_todo on the todos file: a missing file reads
\* as the empty list.
AddTodo(td, args) == FileOf(Append(IF td.exists THEN td.content ELSE <<>>, args))

\* A slip of call_tool_todos: add_todo returns how many todos the file now
\* holds.
call_tool_todos_counting(name, args, td, env) ==
    IF name = "get_current_datetime" THEN Returns([current_datetime |-> env], td)
    ELSE IF name = "add_todo"
         THEN Returns([count |-> Len(AddTodo(td, args).content)], AddTodo(td, args))
    ELSE Raises("ValueError", td)

\* normal_functions.py and todos-test/cfg_functions.py: the same handler on
\* "todos.json" and on "output/todos.json".
call_tool_todos(name, args, td, env) ==
    IF name = "get_current_datetime" THEN Returns([current_datetime |-> env], td)
    ELSE IF name = "add_todo" THEN Returns(None, AddTodo(td, args))
    ELSE Raises("ValueError", td)

call_tool(s, name, args, td, env) ==
    CASE s \in TodoScripts -> call_tool_todos(name, args, td, env)
      [] s = "email_triage" -> call_tool_email_triage(name, args, td)
      [] s = "cfg_email_triage" -> call_tool_cfg_email_triage(name, args, td)
      [] s = "price_compare" -> call_tool_price_compare(name, args, td)
      [] s = "simple_price" -> call_tool_simple_price(name, args, td, env)

\* The values the clock or the random generator may hand to a handler.
EnvValues(s, name) ==
    CASE s \in TodoScripts /\ name = "get_current_datetime" -> Times
      [] s = "simple_price" /\ name = "checkPrice" -> Prices
      [] OTHER -> {0}

(***************************************************************************)
(* The inference service.                                                  *)
(***************************************************************************)
Call(s, name, raw) == [type |-> ToolItemType(s), name |-> name, raw |-> raw]

\* The tool calls the service may emit for a script: calls of the declared
\* tools with arguments the handler accepts, with arguments it faults on, with
\* text that is no JSON, and a call of a name the script never declared.
ServiceCalls(s) ==
    CASE s \in TodoScripts ->
             {Call(s, "get_current_datetime", RawEmpty), Call(s, "add_todo", RawTodoA),
              Call(s, "add_todo", RawTodoB), Call(s, "add_todo", RawOpenBrace),
              Call(s, "delete_todo", RawEmpty)}
      [] s = "email_triage" ->
             {Call(s, "listUnreadThreads", RawEmpty),
              Call(s, "getCalendarAvailability", RawRange),
              Call(s, "getCalendarAvailability", RawEmpty),
              Call(s, "listUnreadThreads", RawOpenBrace),
              Call(s, "sendReply", RawEmpty)}
      [] s = "cfg_email_triage" ->
             {Call(s, "listUnreadThreads", RawLimit),
              Call(s, "getCalendarAvailability", RawRange),
              Call(s, "listUnreadThreads", RawOpenBrace),
              Call(s, "sendReply", RawEmpty)}
      [] s = "price_compare" ->
             {Call(s, "getPrice", RawPrice), Call(s, "getShipping", RawShipping),
              Call(s, "getPrice", RawEmpty), Call(s, "getPrice", RawOpenBrace),
              Call(s, "getShipping", RawShippingNoStore),
              Call(s, "getStock", RawPrice)}
      [] s = "simple_price" ->
             {Call(s, "checkPrice", RawSku), Call(s, "checkPrice", RawEmpty),
              Call(s, "checkPrice", RawOpenBrace), Call(s, "getStock", RawSku)}

NonToolItems == {[type |-> "message"], [type |-> "reasoning"]}

ServiceItems(s) == ServiceCalls(s) \cup NonToolItems

ToolTypes == {"function_call", "custom_tool_call"}

\* A tool-invocation request, of either calling convention.
IsRequest(m) == "type" \in DOMAIN m /\ m.type \in ToolTypes

\* A tool result entry of the conversation.
IsResult(m) == "type" \in DOMAIN m /\ m.type = "function_call_output"

IsText(m) == "type" \in DOMAIN m /\ m.type = "message"

\* How many tool-invocation requests a list of items holds.
NumRequests(seq) == Cardinality({k \in 1..Len(seq) : IsRequest(seq[k])})

\* How many tool results a log holds.
NumResults(seq) == Cardinality({k \in 1..Len(seq) : IsResult(seq[k])})

\* The service's item for a template: a function_call carries its text in
\* .arguments, a custom_tool_call in .input; call ids are handed out in
\* order and never again; the text of a message names its response.
Stamp(tpl, n, id) ==
    CASE tpl.type = "function_call" ->
             [type |-> "function_call", name |-> tpl.name,
              arguments |-> tpl.raw, call_id |-> id]
      [] tpl.type = "custom_tool_call" ->
             [type |-> "custom_tool_call", name |-> tpl.name,
              input |-> tpl.raw, call_id |-> id]
      [] tpl.type = "message" -> [type |-> "message", text |-> n]
      [] OTHER -> [type |-> "reasoning"]

\* The output list of response n for the templates tpls, with issued call
\* ids already handed out.
Output(tpls, n, issued) ==
    [k \in 1..Len(tpls) |->
        Stamp(tpls[k], n, issued + NumRequests(SubSeq(tpls, 1, k)))]

RECURSIVE Flatten(_)
\* response.output_text: the texts of the message items, in order.
Flatten(out) ==
    IF out = <<>> THEN <<>>
    ELSE (IF IsText(Head(out)) THEN <<Head(out).text>> ELSE <<>>) \o Flatten(Tail(out))

\* The responses the service may give to request n when the log has room
\* for room more entries.
ServiceResponses(s, n, issued, room) ==
    { [output |-> Output(tpls, n, issued),
       output_text |-> Flatten(Output(tpls, n, issued))] :
        tpls \in { t \in UNION { [1..k -> ServiceItems(s)] : k \in 0..MaxItems } :
                     Len(t) + NumRequests(t) <= room } }

(***************************************************************************)
(* The state of a session.                                                 *)
(***************************************************************************)
VARIABLES
    script,          \* the script whose main() runs
    pc,              \* where main() stands
    messages,        \* the conversation log (input_list in the todo scripts)
    response,        \* the response the script is working on
    idx,             \* position of "for tool_call in response.output"
    current_length,  \* len(messages) taken before the for loop
    round_num,       \* the round counter (0: not yet assigned)
    tool_call,       \* simple_price: the one tool call it picked (or None)
    tool_outputs,    \* what the snapshot will list
    final_text,      \* the terminal text (None until main() reads it)
    todos,           \* the todos file
    artifact,        \* the snapshot file
    fault,           \* the exception that ended the process ("none" if none)
    sent,            \* history: the input of every inference request
    responses,       \* history: the output list of every response
    issued,          \* the service's count of call ids handed out
    tools,           \* the tool declarations of the script (empty until set)
    sent_tools,      \* history: the tools argument of every inference request
    stream,          \* simple_price: the event stream of the first request
    tool_input_buffers,  \* simple_price: the input fragments kept per item id
    full_input       \* simple_price: the whole input noted at an input-done event

vars == <<script, pc, messages, response, idx, current_length, round_num,
          tool_call, tool_outputs, final_text, todos, artifact, fault,
          sent, responses, issued, tools, sent_tools, stream, tool_input_buffers,
          full_input>>

\* The variables only the requests touch, and those only the stream touches.
toolVars == <<tools, sent_tools>>

streamVars == <<stream, tool_input_buffers, full_input>>

NoResponse == [output |-> <<>>, output_text |-> <<>>]

system_message == [role |-> "system", content |-> "system_prompt"]

user_message == [role |-> "user", content |-> "user_prompt"]

\* What an earlier session left behind.
OldSnapshot == FileOf([prompt |-> "earlier prompt"])

OldTodos == FileOf(<<[title |-> "earlier todo"]>>)

\* The stream object before client.responses.stream(...) is entered: no
\* events, nothing read, no final response.
NoStream == [events |-> <<>>, next |-> 1, final |-> NoResponse]

\* The "tools" list of a script: the type and the name of every declaration.
ToolDeclarations(s) ==
    {[type |-> (IF ToolItemType(s) = "function_call" THEN "function" ELSE "custom"),
      name |-> n] : n \in Declared(s)}

Init ==
    /\ script \in Scripts
    /\ pc = "Start"
    /\ messages = <<>>
    /\ response = NoResponse
    /\ idx = 0
    /\ current_length = 0
    /\ round_num = 0
    /\ tool_call = None
    /\ tool_outputs = <<>>
    /\ final_text = None
    /\ todos \in (IF script \in TodoScripts THEN {NoFile, OldTodos} ELSE {NoFile})
    /\ artifact \in (IF script \in SnapshotScripts THEN {NoFile, OldSnapshot} ELSE {NoFile})
    /\ fault = "none"
    /\ sent = <<>>
    /\ responses = <<>>
    /\ issued = 0
    /\ tools = {}
    /\ sent_tools = <<>>
    /\ stream = NoStream
    /\ tool_input_buffers = EmptyDict
    /\ full_input = EmptyDict

(***************************************************************************)
(* The statements of main().                                               *)
(***************************************************************************)
\* A slip of Extend: "messages = response.output", the log replaced.
ExtendReplacing(msgs, items) == items

\* Another slip of Extend: the reasoning items of the response are left out.
ExtendWithoutReasoning(msgs, items) ==
    msgs \o SelectSeq(items, LAMBDA m : m.type # "reasoning")

\* messages += response.output
Extend(msgs, items) == msgs \o items

\* A slip of ResultEntry: every result filed under the id of the session's
\* first call.
ResultEntryFirstId(item, result) ==
    [type |-> "function_call_output", call_id |-> 1, output |-> json_dumps(result)]

\* The entry appended for a dispatched tool call.
ResultEntry(item, result) ==
    [type |-> "function_call_output", call_id |-> item.call_id,
     output |-> json_dumps(result)]

\* "if tool_call.type != <the script's type>: continue", negated.
IsToolCall(s, item) == item.type = ToolItemType(s)

\* tool_call.arguments of a function_call, tool_call.input of a custom call.
RawOf(s, item) == IF ToolItemType(s) = "function_call" THEN item.arguments ELSE item.input

\* A slip of LoopEnds: the loop also ends once the round counter reaches 2.
LoopEndsByCounter(msgs, cur) == Len(msgs) = cur \/ round_num >= 2

\* Another slip of LoopEnds: the loop never ends in its first round.
LoopEndsFromRoundTwo(msgs, cur) == Len(msgs) = cur /\ round_num >= 2

\* A third slip of LoopEnds: the loop is left after its first for loop,
\* whatever that appended.
LoopEndsAfterOneRound(msgs, cur) == TRUE

\* A fourth slip of LoopEnds: the break is never taken.
LoopEndsNever(msgs, cur) == FALSE

\* "if len(messages) == current_length: break"
LoopEnds(msgs, cur) == Len(msgs) = cur

\* The entry a script keeps of a dispatched call for its snapshot; the two
\* email scripts keep the keys of the result only.
ToolOutputEntry(s, name, args, result) ==
    IF s \in {"email_triage", "cfg_email_triage"}
    THEN [name |-> name, args |-> args, result |-> DOMAIN result]
    ELSE [name |-> name, args |-> args, result |-> result]

\* The snapshot the looping scripts write; email_triage files the
\* invocations under "tool_outputs_keys".
Snapshot(outs, text) ==
    IF script = "email_triage"
    THEN FileOf([prompt |-> "user_prompt", tool_outputs_keys |-> outs,
                 final_text |-> text])
    ELSE FileOf([prompt |-> "user_prompt", tool_outputs |-> outs, final_text |-> text])

\* A slip of RequestInput: the results of the tool calls are left out of the
\* request.
RequestInputWithoutResults(msgs) == SelectSeq(msgs, LAMBDA m : ~IsResult(m))

\* "input=messages": the request carries the log as it stands.
RequestInput(msgs) == msgs

\* A slip of FinalText: the text of the session's first response.
FinalTextOfFirstResponse(resp) == Flatten(responses[1])

\* getattr(response, "output_text", None)
FinalText(resp) == IF "output_text" \in DOMAIN resp THEN resp.output_text ELSE None

\* A slip of RequestTools: only the first request of a session declares the
\* tools.
RequestToolsFirstOnly(tls) == IF sent = <<>> THEN tls ELSE {}

\* "tools=tools": the request carries the script's declarations.
RequestTools(tls) == tls

\* A slip of Abort: the exception is caught and logged, and main() goes on
\* to its next inference call.
AbortSwallowed(e) ==
    /\ pc' = "AwaitingModel"
    /\ fault' = e

\* An exception nobody catches ends the process where it stands.
Abort(e) ==
    /\ pc' = "Aborted"
    /\ fault' = e

\* A slip of Setup: the snapshot of an earlier run is left where it is.
SetupKeepingSnapshot ==
    /\ pc = "Start"
    /\ todos' = NoFile
    /\ messages' = <<system_message, user_message>>
    /\ pc' = "AwaitingModel"
    /\ tools' = ToolDeclarations(script)
    /\ UNCHANGED <<sent_tools, stream, tool_input_buffers, full_input>>
    /\ UNCHANGED <<script, response, idx, current_length, round_num, tool_call,
                   tool_outputs, final_text, fault, sent, responses, issued, artifact>>

\* Another slip of Setup: a snapshot holding the prompt alone is written at
\* the start, to be filled in at the end.
SetupWritingStub ==
    /\ pc = "Start"
    /\ artifact' = FileOf([prompt |-> "user_prompt"])
    /\ todos' = NoFile
    /\ messages' = <<system_message, user_message>>
    /\ pc' = "AwaitingModel"
    /\ tools' = ToolDeclarations(script)
    /\ UNCHANGED <<sent_tools, stream, tool_input_buffers, full_input>>
    /\ UNCHANGED <<script, response, idx, current_length, round_num, tool_call,
                   tool_outputs, final_text, fault, sent, responses, issued>>

\* The start of main(): the files of an earlier run are removed and the log
\* is seeded with the system and the user message.
Setup ==
    /\ pc = "Start"
    /\ artifact' = NoFile
    /\ todos' = NoFile
    /\ messages' = <<system_message, user_message>>
    /\ pc' = "AwaitingModel"
    /\ tools' = ToolDeclarations(script)
    /\ UNCHANGED <<sent_tools, stream, tool_input_buffers, full_input>>
    /\ UNCHANGED <<script, response, idx, current_length, round_num, tool_call,
                   tool_outputs, final_text, fault, sent, responses, issued>>

\* client.responses.create(input=messages, ...) of a looping script returns;
\* the first call is followed by "round_num = 1".
Create ==
    /\ pc = "AwaitingModel"
    /\ script \in LoopScripts
    /\ \E r \in ServiceResponses(script, Len(sent) + 1, issued, MaxLog - Len(messages)) :
          /\ response' = r
          /\ responses' = Append(responses, r.output)
          /\ issued' = issued + NumRequests(r.output)
    /\ sent' = Append(sent, RequestInput(messages))
    /\ round_num' = (IF round_num = 0 THEN 1 ELSE round_num)
    /\ pc' = "LoopHead"
    /\ sent_tools' = Append(sent_tools, RequestTools(tools))
    /\ UNCHANGED <<tools, stream, tool_input_buffers, full_input>>
    /\ UNCHANGED <<script, messages, idx, current_length, tool_call, tool_outputs,
                   final_text, todos, artifact, fault>>

\* The inference call raises (the request does not go through, the service
\* answers with an error): nothing catches it.
CreateFails ==
    /\ pc \in {"AwaitingModel", "AwaitingSummary"}
    /\ sent' = Append(sent, RequestInput(messages))
    /\ Abort("APIError")
    /\ sent_tools' = Append(sent_tools, RequestTools(tools))
    /\ UNCHANGED <<tools, stream, tool_input_buffers, full_input>>
    /\ UNCHANGED <<script, messages, response, idx, current_length, round_num,
                   tool_call, tool_outputs, final_text, todos, artifact, responses,
                   issued>>

\* "messages += response.output; current_length = len(messages)" and the
\* start of the for loop.
LoopHead ==
    /\ pc = "LoopHead"
    /\ messages' = Extend(messages, response.output)
    /\ current_length' = Len(messages')
    /\ idx' = 1
    /\ pc' = "ForLoop"
    /\ UNCHANGED toolVars
    /\ UNCHANGED streamVars
    /\ UNCHANGED <<script, response, round_num, tool_call, tool_outputs, final_text,
                   todos, artifact, fault, sent, responses, issued>>

\* The for loop passes over an item that is not of the script's tool type.
ForSkip ==
    /\ pc = "ForLoop"
    /\ idx <= Len(response.output)
    /\ ~IsToolCall(script, response.output[idx])
    /\ idx' = idx + 1
    /\ UNCHANGED toolVars
    /\ UNCHANGED streamVars
    /\ UNCHANGED <<script, pc, messages, response, current_length, round_num,
                   tool_call, tool_outputs, final_text, todos, artifact, fault, sent,
                   responses, issued>>

\* A slip of ForDispatch: the result is put right behind the items of the
\* response, in front of the results the round has already made.
ForDispatchInFront ==
    /\ pc = "ForLoop"
    /\ idx <= Len(response.output)
    /\ IsToolCall(script, response.output[idx])
    /\ LET item == response.output[idx]
           dec == json_loads(RawOf(script, item))
       IN /\ dec.raised = "none"
          /\ \E env \in EnvValues(script, item.name) :
                LET r == call_tool(script, item.name, dec.value, todos, env)
                IN /\ r.raised = "none"
                   /\ todos' = r.todos
                   /\ tool_outputs' =
                          (IF script \in SnapshotScripts
                           THEN Append(tool_outputs,
                                       ToolOutputEntry(script, item.name, dec.value, r.result))
                           ELSE tool_outputs)
                   /\ messages' = SubSeq(messages, 1, current_length)
                                      \o <<ResultEntry(item, r.result)>>
                                      \o SubSeq(messages, current_length + 1, Len(messages))
    /\ idx' = idx + 1
    /\ UNCHANGED toolVars
    /\ UNCHANGED streamVars
    /\ UNCHANGED <<script, pc, response, current_length, round_num, tool_call,
                   final_text, artifact, fault, sent, responses, issued>>

\* The for loop's body on a tool call that decodes and whose handler returns:
\* the result is appended under the call's call_id.
ForDispatch ==
    /\ pc = "ForLoop"
    /\ idx <= Len(response.output)
    /\ IsToolCall(script, response.output[idx])
    /\ LET item == response.output[idx]
           dec == json_loads(RawOf(script, item))
       IN /\ dec.raised = "none"
          /\ \E env \in EnvValues(script, item.name) :
                LET r == call_tool(script, item.name, dec.value, todos, env)
                IN /\ r.raised = "none"
                   /\ todos' = r.todos
                   /\ tool_outputs' =
                          (IF script \in SnapshotScripts
                           THEN Append(tool_outputs,
                                       ToolOutputEntry(script, item.name, dec.value, r.result))
                           ELSE tool_outputs)
                   /\ messages' = Append(messages, ResultEntry(item, r.result))
    /\ idx' = idx + 1
    /\ UNCHANGED toolVars
    /\ UNCHANGED streamVars
    /\ UNCHANGED <<script, pc, response, current_length, round_num, tool_call,
                   final_text, artifact, fault, sent, responses, issued>>

\* The for loop's body raises: json.loads on text that is no JSON, or
\* call_tool on an undeclared name or on arguments the handler faults on.
ForRaise ==
    /\ pc = "ForLoop"
    /\ idx <= Len(response.output)
    /\ IsToolCall(script, response.output[idx])
    /\ LET item == response.output[idx]
           dec == json_loads(RawOf(script, item))
       IN IF dec.raised # "none"
          THEN Abort(dec.raised)
          ELSE \E env \in EnvValues(script, item.name) :
                  LET r == call_tool(script, item.name, dec.value, todos, env)
                  IN /\ r.raised # "none"
                     /\ Abort(r.raised)
    /\ UNCHANGED toolVars
    /\ UNCHANGED streamVars
    /\ UNCHANGED <<script, messages, response, idx, current_length, round_num,
                   tool_call, tool_outputs, final_text, todos, artifact, sent,
                   responses, issued>>

\* The for loop is over and appended nothing: break, read the final text and
\* write the snapshot (the todo scripts write none).
Break ==
    /\ pc = "ForLoop"
    /\ idx > Len(response.output)
    /\ LoopEnds(messages, current_length)
    /\ final_text' = FinalText(response)
    /\ artifact' = (IF script \in SnapshotScripts
                    THEN Snapshot(tool_outputs, final_text')
                    ELSE artifact)
    /\ pc' = "Done"
    /\ UNCHANGED toolVars
    /\ UNCHANGED streamVars
    /\ UNCHANGED <<script, messages, response, idx, current_length, round_num,
                   tool_call, tool_outputs, todos, fault, sent, responses, issued>>

\* A slip of NextRound: the counter grows by the number of results the round
\* appended.
NextRoundCountingResults ==
    /\ pc = "ForLoop"
    /\ idx > Len(response.output)
    /\ ~LoopEnds(messages, current_length)
    /\ round_num' = round_num + (Len(messages) - current_length)
    /\ pc' = "AwaitingModel"
    /\ UNCHANGED toolVars
    /\ UNCHANGED streamVars
    /\ UNCHANGED <<script, messages, response, idx, current_length, tool_call,
                   tool_outputs, final_text, todos, artifact, fault, sent, responses,
                   issued>>

\* The for loop is over and appended results: "round_num += 1" and the next
\* inference call.
NextRound ==
    /\ pc = "ForLoop"
    /\ idx > Len(response.output)
    /\ ~LoopEnds(messages, current_length)
    /\ round_num' = round_num + 1
    /\ pc' = "AwaitingModel"
    /\ UNCHANGED toolVars
    /\ UNCHANGED streamVars
    /\ UNCHANGED <<script, messages, response, idx, current_length, tool_call,
                   tool_outputs, final_text, todos, artifact, fault, sent, responses,
                   issued>>

(***************************************************************************)
(* simple_price: one streamed request, at most one dispatch, one summary   *)
(* request.                                                                *)
(***************************************************************************)
\* A slip of FirstToolCall: the loop has no break and keeps the last custom
\* tool call.
LastToolCall(out) ==
    LET hits == {k \in 1..Len(out) : out[k].type = "custom_tool_call"}
    IN IF hits = {} THEN None
       ELSE out[CHOOSE k \in hits : \A j \in hits : k >= j]

\* "for item in response.output: if item.type == 'custom_tool_call': tool_call
\* = item; break": the first custom tool call, or None.
FirstToolCall(out) ==
    LET hits == {k \in 1..Len(out) : out[k].type = "custom_tool_call"}
    IN IF hits = {} THEN None
       ELSE out[CHOOSE k \in hits : \A j \in hits : k <= j]

\* The two snapshots of simple_price.
SnapshotNoTool(text) ==
    FileOf([prompt |-> "user_prompt", tool_called |-> FALSE, final_text |-> text])

SnapshotTool(outs, text) ==
    FileOf([prompt |-> "user_prompt", tool_call |-> outs, final_text |-> text])

\* dict.get(key, default) and "d[key] = value" on a dict kept as a function.
Get(d, k, default) == IF k \in DOMAIN d THEN d[k] ELSE default

Put(d, k, v) == [x \in DOMAIN d \cup {k} |-> IF x = k THEN v ELSE d[x]]

\* Where the service may cut the input of a tool call into fragments: behind
\* its first character and in its middle.
CutPoints(raw) == {c \in {1, Len(raw) \div 2} : 0 < c /\ c < Len(raw)}

RECURSIVE Pieces(_, _, _)
\* The fragments of raw from place from on, cut at cuts.
Pieces(raw, cuts, from) ==
    IF cuts = {} THEN <<SubSeq(raw, from, Len(raw))>>
    ELSE LET c == CHOOSE x \in cuts : \A y \in cuts : x <= y
         IN <<SubSeq(raw, from, c)>> \o Pieces(raw, cuts \ {c}, c + 1)

\* The ways the service may send the input of a tool call: whole, or in two
\* or three fragments.
Fragmentations(raw) == {Pieces(raw, cuts, 1) : cuts \in SUBSET CutPoints(raw)}

\* One way of sending every item of an output list: the fragments of each
\* custom tool call, none for the other items.
FragmentChoices(out) ==
    {fr \in [1..Len(out) -> UNION ({{<<>>}} \cup {Fragmentations(out[k].input) :
                                        k \in {j \in 1..Len(out) :
                                                 out[j].type = "custom_tool_call"}})] :
        \A k \in 1..Len(out) :
            fr[k] \in (IF out[k].type = "custom_tool_call"
                       THEN Fragmentations(out[k].input) ELSE {<<>>})}

\* The events of the stream; the item id of an item is its place in the
\* output list.
Event(etype, item_id, delta, input) ==
    [type |-> etype, item_id |-> item_id, delta |-> delta, input |-> input]

ItemEvents(out, fr, k) ==
    <<Event("response.output_item.added", k, "", "")>>
    \o (IF out[k].type = "custom_tool_call"
        THEN [j \in 1..Len(fr[k]) |->
                 Event("response.custom_tool_call_input.delta", k, fr[k][j], "")]
             \o <<Event("response.custom_tool_call_input.done", k, "", out[k].input)>>
        ELSE <<>>)
    \o <<Event("response.output_item.done", k, "", "")>>

RECURSIVE EventsFrom(_, _, _)
EventsFrom(out, fr, k) ==
    IF k > Len(out) THEN <<Event("response.completed", 0, "", "")>>
    ELSE ItemEvents(out, fr, k) \o EventsFrom(out, fr, k + 1)

\* The events of a response: in_progress, the items one after the other,
\* completed.
Events(out, fr) == <<Event("response.in_progress", 0, "", "")>> \o EventsFrom(out, fr, 1)

\* A slip of Accumulate: the fragment is added to every buffer there is.
AccumulateUnkeyed(buffers, item_id, delta) ==
    [k \in DOMAIN buffers \cup {item_id} |-> Get(buffers, k, "") \o delta]

\* tool_input_buffers[item_id] = tool_input_buffers.get(item_id, "") + delta
Accumulate(buffers, item_id, delta) ==
    Put(buffers, item_id, Get(buffers, item_id, "") \o delta)

\* payload.get("input") or tool_input_buffers.get(item_id, "")
FullInput(buffers, item_id, input) ==
    IF input # "" THEN input ELSE Get(buffers, item_id, "")

\* A slip of StreamOver: the for loop over the events is left at the first
\* input-done event.
StreamOverAtInputDone(st) ==
    \/ st.next > Len(st.events)
    \/ \E j \in 1..(st.next - 1) :
          st.events[j].type = "response.custom_tool_call_input.done"

\* "for event in stream" has no event left.
StreamOver(st) == st.next > Len(st.events)

\* "tool_input_buffers = {}" and client.responses.stream(...) is entered: the
\* request is made and the service starts to answer it.
StreamCreate ==
    /\ pc = "AwaitingModel"
    /\ script \in StreamScripts
    /\ \E r \in ServiceResponses(script, Len(sent) + 1, issued, MaxLog - Len(messages)) :
          /\ \E fr \in FragmentChoices(r.output) :
                stream' = [events |-> Events(r.output, fr), next |-> 1, final |-> r]
          /\ responses' = Append(responses, r.output)
          /\ issued' = issued + NumRequests(r.output)
    /\ tool_input_buffers' = EmptyDict
    /\ sent' = Append(sent, RequestInput(messages))
    /\ sent_tools' = Append(sent_tools, RequestTools(tools))
    /\ pc' = "Streaming"
    /\ UNCHANGED <<script, messages, response, idx, current_length, round_num, tool_call,
                   tool_outputs, final_text, todos, artifact, fault, tools, full_input>>

\* One turn of "for event in stream": a delta is added to the buffer of its
\* item, an input-done event has the whole input noted, every other event is
\* only logged.
StreamEvent ==
    /\ pc = "Streaming"
    /\ ~StreamOver(stream)
    /\ LET event == stream.events[stream.next]
       IN /\ tool_input_buffers' =
                 (IF event.type = "response.custom_tool_call_input.delta"
                  THEN Accumulate(tool_input_buffers, event.item_id, event.delta)
                  ELSE tool_input_buffers)
          /\ full_input' =
                 (IF event.type = "response.custom_tool_call_input.done"
                  THEN Put(full_input, event.item_id,
                           FullInput(tool_input_buffers, event.item_id, event.input))
                  ELSE full_input)
    /\ stream' = [stream EXCEPT !.next = stream.next + 1]
    /\ UNCHANGED toolVars
    /\ UNCHANGED <<script, pc, messages, response, idx, current_length, round_num,
                   tool_call, tool_outputs, final_text, todos, artifact, fault, sent,
                   responses, issued>>

\* The stream has ended: stream.get_final_response() hands over the
\* assembled response.
StreamEnd ==
    /\ pc = "Streaming"
    /\ StreamOver(stream)
    /\ response' = stream.final
    /\ pc' = "FindToolCall"
    /\ UNCHANGED toolVars
    /\ UNCHANGED streamVars
    /\ UNCHANGED <<script, messages, idx, current_length, round_num, tool_call,
                   tool_outputs, final_text, todos, artifact, fault, sent, responses,
                   issued>>

\* The stream breaks off while its events are read: the exception leaves the
\* for loop and the with block, and nothing catches it.
StreamFails ==
    /\ pc = "Streaming"
    /\ ~StreamOver(stream)
    /\ Abort("APIError")
    /\ UNCHANGED toolVars
    /\ UNCHANGED streamVars
    /\ UNCHANGED <<script, messages, response, idx, current_length, round_num,
                   tool_call, tool_outputs, final_text, todos, artifact, sent,
                   responses, issued>>

\* "if tool_call is None": the snapshot is written and main() returns.
NoToolCall ==
    /\ pc = "FindToolCall"
    /\ FirstToolCall(response.output) = None
    /\ final_text' = FinalText(response)
    /\ artifact' = SnapshotNoTool(final_text')
    /\ pc' = "Done"
    /\ UNCHANGED toolVars
    /\ UNCHANGED streamVars
    /\ UNCHANGED <<script, messages, response, idx, current_length, round_num,
                   tool_call, tool_outputs, todos, fault, sent, responses, issued>>

\* The single tool call decodes and its handler returns: the response's
\* items and then the result are appended.
ExecTool ==
    /\ pc = "FindToolCall"
    /\ FirstToolCall(response.output) # None
    /\ LET item == FirstToolCall(response.output)
           dec == json_loads(item.input)
       IN /\ dec.raised = "none"
          /\ \E env \in EnvValues(script, item.name) :
                LET r == call_tool(script, item.name, dec.value, todos, env)
                IN /\ r.raised = "none"
                   /\ todos' = r.todos
                   /\ tool_outputs' =
                          <<ToolOutputEntry(script, item.name, dec.value, r.result)>>
                   /\ messages' = Append(Extend(messages, response.output),
                                         ResultEntry(item, r.result))
          /\ tool_call' = item
    /\ pc' = "AwaitingSummary"
    /\ UNCHANGED toolVars
    /\ UNCHANGED streamVars
    /\ UNCHANGED <<script, response, idx, current_length, round_num, final_text,
                   artifact, fault, sent, responses, issued>>

\* The single tool call raises, before anything is appended.
ExecRaise ==
    /\ pc = "FindToolCall"
    /\ FirstToolCall(response.output) # None
    /\ LET item == FirstToolCall(response.output)
           dec == json_loads(item.input)
       IN /\ IF dec.raised # "none"
             THEN Abort(dec.raised)
             ELSE \E env \in EnvValues(script, item.name) :
                     LET r == call_tool(script, item.name, dec.value, todos, env)
                     IN /\ r.raised # "none"
                        /\ Abort(r.raised)
          /\ tool_call' = item
    /\ UNCHANGED toolVars
    /\ UNCHANGED streamVars
    /\ UNCHANGED <<script, messages, response, idx, current_length, round_num,
                   tool_outputs, final_text, todos, artifact, sent, responses, issued>>

\* The summary request returns: its text is the final text, the snapshot is
\* written, and nothing of its output is looked at.
Summary ==
    /\ pc = "AwaitingSummary"
    /\ \E r \in ServiceResponses(script, Len(sent) + 1, issued, MaxLog - Len(messages)) :
          /\ response' = r
          /\ responses' = Append(responses, r.output)
          /\ issued' = issued + NumRequests(r.output)
          /\ final_text' = FinalText(r)
          /\ artifact' = SnapshotTool(tool_outputs, final_text')
    /\ sent' = Append(sent, RequestInput(messages))
    /\ pc' = "Done"
    /\ sent_tools' = Append(sent_tools, RequestTools(tools))
    /\ UNCHANGED <<tools, stream, tool_input_buffers, full_input>>
    /\ UNCHANGED <<script, messages, idx, current_length, round_num, tool_call,
                   tool_outputs, todos, fault>>

Next ==
    \/ Setup
    \/ Create
    \/ CreateFails
    \/ LoopHead
    \/ ForSkip
    \/ ForDispatch
    \/ ForRaise
    \/ Break
    \/ NextRound
    \/ StreamCreate
    \/ StreamEvent
    \/ StreamEnd
    \/ StreamFails
    \/ NoToolCall
    \/ ExecTool
    \/ ExecRaise
    \/ Summary

Spec == Init /\ [][Next]_vars

(***************************************************************************)
(* Reading the history.                                                    *)
(***************************************************************************)
\* The tool-invocation requests the responses so far hold, as (round, place).
Requests ==
    {rk \in UNION {{<<r, k>> : k \in 1..Len(responses[r])} : r \in 1..Len(responses)} :
        IsRequest(responses[rk[1]][rk[2]])}

ItemAt(rk) == responses[rk[1]][rk[2]]

\* The places of a log that hold a result for a call id.
ResultsFor(log, id) == {j \in 1..Len(log) : IsResult(log[j]) /\ log[j].call_id = id}

Answered(it) == ResultsFor(messages, it.call_id) # {}

\* The places of the log where the results of round r go: after the input of
\* request r and the items of response r, up to the input of request r + 1.
RoundSegment(r) ==
    (Len(sent[r]) + Len(responses[r]) + 1) ..
    (IF r < Len(sent) THEN Len(sent[r + 1]) ELSE Len(messages))

\* The payloads call_tool can produce for a request.
Payloads(it) ==
    LET dec == json_loads(RawOf(script, it))
    IN IF dec.raised # "none" THEN {}
       ELSE {json_dumps(call_tool(script, it.name, dec.value, NoFile, env).result) :
                env \in {e \in EnvValues(script, it.name) :
                           call_tool(script, it.name, dec.value, NoFile, e).raised = "none"}}

\* The dispatcher has taken up the request at place k of response r: the
\* body of the for loop (the single dispatch of simple_price) has run on it,
\* to its end or to the exception it raised.
TakenUp(rk) ==
    IF script \in LoopScripts
    THEN \/ rk[1] < Len(responses)
         \/ /\ rk[1] = Len(responses)
            /\ pc \in {"ForLoop", "AwaitingModel", "Done", "Aborted"}
            /\ \/ rk[2] < idx
               \/ pc = "Aborted" /\ fault # "APIError" /\ rk[2] = idx
    ELSE tool_call # None /\ rk[1] = 1 /\ ItemAt(rk) = tool_call

\* Why the dispatch of a request fails, "none" if it does not.
FailureOf(it) ==
    LET dec == json_loads(RawOf(script, it))
    IN IF dec.raised # "none" THEN dec.raised
       ELSE IF it.name \notin Declared(script) THEN "ValueError"
       ELSE IF \E e \in EnvValues(script, it.name) :
                  call_tool(script, it.name, dec.value, NoFile, e).raised # "none"
            THEN "HandlerFault"
            ELSE "none"

(***************************************************************************)
(* C1.  In every session, whenever inference request n+1 is submitted,     *)
(* each tool-invocation request of the responses of rounds 1..n has        *)
(* exactly one result entry in the submitted conversation, and the         *)
(* conversation holds no result that answers no request.                   *)
(* Stated as written; simple_price breaks it.                              *)
(***************************************************************************)
C1_EveryRequestAnsweredBeforeNextRound ==
    \A n \in 2..Len(sent) :
        /\ \A rk \in Requests :
              rk[1] < n => Cardinality(ResultsFor(sent[n], ItemAt(rk).call_id)) = 1
        /\ \A j \in 1..Len(sent[n]) :
              IsResult(sent[n][j]) =>
                  \E rk \in Requests : rk[1] < n /\ ItemAt(rk).call_id = sent[n][j].call_id

(***************************************************************************)
(* C2.  When a session of a looping script has ended (Done or Aborted),    *)
(* the number of tool results in the conversation equals the number of     *)
(* tool-invocation requests seen in the responses of all rounds.           *)
(* Stated as written; an uncaught exception in the for loop breaks it.     *)
(***************************************************************************)
C2_ResultsEqualRequestsAtEnd ==
    (script \in LoopScripts /\ pc \in {"Done", "Aborted"}) =>
        NumResults(messages) = Cardinality(Requests)

(***************************************************************************)
(* C3.  Every tool result in the conversation carries the call_id of a     *)
(* tool-invocation request of the response of the same round, its payload  *)
(* is the serialised result of call_tool on that request's name and        *)
(* decoded arguments, and no call_id is answered twice.                    *)
(***************************************************************************)
C3_ResultsMatchRequests ==
    /\ \A j \in 1..Len(messages) :
          IsResult(messages[j]) =>
              \E rk \in Requests :
                  /\ ItemAt(rk).call_id = messages[j].call_id
                  /\ j \in RoundSegment(rk[1])
                  /\ messages[j].output \in Payloads(ItemAt(rk))
    /\ \A rk \in Requests : Cardinality(ResultsFor(messages, ItemAt(rk).call_id)) <= 1

\* Two rounds have been dispatched, each with a result in the log.
C3_Witness ==
    /\ Len(responses) >= 2
    /\ \E j1, j2 \in 1..Len(messages) :
          /\ IsResult(messages[j1]) /\ IsResult(messages[j2])
          /\ j1 \in RoundSegment(1) /\ j2 \in RoundSegment(2)

(***************************************************************************)
(* C4.  The loop of a looping script reaches Done exactly when the current *)
(* round's response holds zero tool-invocation requests: at the end of the *)
(* for loop the exit test is true if and only if the response holds no     *)
(* request, whatever the round counter and however many non-tool items the *)
(* response holds, and in Done the last response holds no request.         *)
(***************************************************************************)
C4_DoneIffNoRequests ==
    script \in LoopScripts =>
        /\ pc = "Done" => NumRequests(response.output) = 0
        /\ (pc = "ForLoop" /\ idx > Len(response.output)) =>
               (LoopEnds(messages, current_length) <=> NumRequests(response.output) = 0)
        /\ (pc = "Aborted" /\ fault # "APIError") => NumRequests(response.output) > 0

\* Done in round 2 on a response of two non-tool items.
C4_Witness ==
    /\ script \in LoopScripts
    /\ pc = "Done"
    /\ round_num = 2
    /\ Len(response.output) = 2

(***************************************************************************)
(* C5.  The conversation log is append-only: every step leaves the log it  *)
(* found as a prefix of the log it leaves.                                 *)
(***************************************************************************)
C5_LogAppendOnly ==
    [][/\ Len(messages') >= Len(messages)
       /\ SubSeq(messages', 1, Len(messages)) = messages]_vars

\* A finished session whose log grew by items and by results.
C5_Witness ==
    /\ pc = "Done"
    /\ Len(messages) >= 6
    /\ NumResults(messages) >= 2

(***************************************************************************)
(* C6.  A tool-invocation request that names an undeclared tool is         *)
(* answered in band: once the dispatcher has taken it up, the log holds a  *)
(* result under its call_id and the session is not aborted by it.          *)
(* Stated as written; call_tool raises ValueError and nothing catches it.  *)
(***************************************************************************)
C6_UnknownToolAnswered ==
    \A rk \in Requests :
        (TakenUp(rk) /\ ItemAt(rk).name \notin Declared(script)
                     /\ json_loads(RawOf(script, ItemAt(rk))).raised = "none") =>
            /\ Answered(ItemAt(rk))
            /\ ~(pc = "Aborted" /\ fault = "ValueError")

(***************************************************************************)
(* C7.  A tool-invocation request whose raw arguments fail to decode is    *)
(* answered with a result and raises no fault: once the dispatcher has     *)
(* taken it up, the log holds a result under its call_id and the session   *)
(* is not aborted by the decode error.                                     *)
(* Stated as written; json.loads raises and nothing catches it.            *)
(***************************************************************************)
C7_DecodeErrorAnswered ==
    \A rk \in Requests :
        (TakenUp(rk) /\ json_loads(RawOf(script, ItemAt(rk))).raised # "none") =>
            /\ Answered(ItemAt(rk))
            /\ ~(pc = "Aborted" /\ fault = "JSONDecodeError")

(***************************************************************************)
(* C8.  In a looping script, a request of a declared tool whose handler    *)
(* faults (a missing argument key, a store without a shipping record) is   *)
(* answered with a result under its call_id, and the loop is not aborted   *)
(* by the fault.                                                           *)
(* Stated as written; the KeyError or TypeError is not caught.             *)
(***************************************************************************)
C8_HandlerFaultAnswered ==
    \A rk \in Requests :
        (script \in LoopScripts /\ TakenUp(rk) /\ FailureOf(ItemAt(rk)) = "HandlerFault") =>
            /\ Answered(ItemAt(rk))
            /\ ~(pc = "Aborted" /\ fault \in {"KeyError", "TypeError"})

(***************************************************************************)
(* C9.  Within one round a request whose handler fails does not keep the   *)
(* other requests of the round from being dispatched: when call_tool has   *)
(* raised on a request, every other request of that response (that does   *)
(* not fail itself) has a result.                                          *)
(* Stated as written; the exception ends the for loop where it stands.     *)
(***************************************************************************)
C9_FailureDoesNotBlockRound ==
    (script \in LoopScripts /\ pc = "Aborted"
                            /\ fault \in {"KeyError", "TypeError", "ValueError"}) =>
        \A k \in 1..Len(response.output) :
            (k # idx /\ IsRequest(response.output[k])
                     /\ FailureOf(response.output[k]) = "none") =>
                Answered(response.output[k])

(***************************************************************************)
(* C10.  With a maximum-round guard of 1 the session of a looping script   *)
(* ends in the RoundLimitExceeded abort state instead of going on: once    *)
(* the round counter has passed 1 the session is aborted with that fault.  *)
(* Stated as written; the loop has no guard and goes on to round 2.        *)
(***************************************************************************)
C10_RoundGuardOfOneAborts ==
    (script \in LoopScripts /\ round_num > 1) =>
        (pc = "Aborted" /\ fault = "RoundLimitExceeded")

(***************************************************************************)
(* The states of the orchestration loop, read off main(): the loop is in   *)
(* DispatchingTools while its for loop runs over a response that holds a   *)
(* tool call of the script's type, and in AwaitingModel while it waits for *)
(* a response or inspects one.                                             *)
(***************************************************************************)
HoldsToolCall(s, out) == \E k \in 1..Len(out) : IsToolCall(s, out[k])

Phase ==
    CASE pc = "Start" -> "Init"
      [] pc = "Done" -> "Done"
      [] pc = "Aborted" -> "Aborted"
      [] pc = "ForLoop" /\ HoldsToolCall(script, response.output) -> "DispatchingTools"
      [] OTHER -> "AwaitingModel"

\* The session-level errors: the inference call itself failed.
SessionLevelFaults == {"APIError"}

(***************************************************************************)
(* C11.  The orchestration loop only moves along Init -> AwaitingModel ->  *)
(* DispatchingTools -> AwaitingModel (repeated) -> Done: Done is entered   *)
(* only from AwaitingModel, DispatchingTools is followed by AwaitingModel  *)
(* and by nothing else, Done and Aborted are terminal, and Aborted is      *)
(* entered only with a session-level error.                                *)
(* Stated as written, of the looping scripts; an exception of a single    *)
(* tool call takes the loop from DispatchingTools to Aborted.              *)
(***************************************************************************)
C11_LoopStateOrder ==
    [][ (script \in LoopScripts) =>
          /\ (Phase = "Init" /\ Phase' # "Init") => Phase' = "AwaitingModel"
          /\ (Phase' = "Done" /\ Phase # "Done") => Phase = "AwaitingModel"
          /\ (Phase' = "DispatchingTools" /\ Phase # "DispatchingTools") =>
                 Phase = "AwaitingModel"
          /\ Phase = "DispatchingTools" =>
                 Phase' \in {"DispatchingTools", "AwaitingModel"}
          /\ Phase \in {"Done", "Aborted"} => Phase' = Phase
          /\ (Phase' = "Aborted" /\ Phase # "Aborted") =>
                 fault' \in SessionLevelFaults
      ]_vars

(***************************************************************************)
(* C12.  Every inference request of a session is submitted with the full   *)
(* conversation log as it stands at that moment: the first request holds   *)
(* the two seed messages, and the input of request n+1 is the input of     *)
(* request n, followed by all output items of response n, followed by the  *)
(* results made in round n, each answering a request of response n, with   *)
(* nothing dropped.                                                        *)
(***************************************************************************)
\* What request n + 1 holds behind the input of request n and the items of
\* response n.
ResultsSent(n) ==
    SubSeq(sent[n + 1], Len(sent[n]) + Len(responses[n]) + 1, Len(sent[n + 1]))

C12_RequestCarriesFullLog ==
    /\ Len(sent) >= 1 => sent[1] = <<system_message, user_message>>
    /\ \A n \in 1..(Len(sent) - 1) :
          /\ Len(sent[n + 1]) >= Len(sent[n]) + Len(responses[n])
          /\ sent[n + 1] = sent[n] \o responses[n] \o ResultsSent(n)
          /\ \A j \in 1..Len(ResultsSent(n)) :
                /\ IsResult(ResultsSent(n)[j])
                /\ \E k \in 1..Len(responses[n]) :
                      /\ IsRequest(responses[n][k])
                      /\ responses[n][k].call_id = ResultsSent(n)[j].call_id
    /\ (Len(sent) >= 1 /\ (pc \in {"LoopHead", "Streaming", "FindToolCall"}
                           \/ (pc = "Aborted" /\ fault = "APIError"))) =>
          sent[Len(sent)] = messages

\* A third request that carries the results of two rounds.
C12_Witness ==
    /\ Len(sent) >= 3
    /\ NumResults(sent[2]) >= 1
    /\ NumResults(sent[3]) > NumResults(sent[2])

(***************************************************************************)
(* C13.  When the loop reaches Done, the terminal text is the flattened    *)
(* text of the last response, never that of an earlier round, and no       *)
(* exception has ended the session; in a looping script that last response *)
(* holds no tool-invocation request.  An empty text ends the session in    *)
(* Done like any other.                                                    *)
(***************************************************************************)
C13_TerminalTextOfLastRound ==
    pc = "Done" =>
        /\ fault = "none"
        /\ responses # <<>>
        /\ final_text = Flatten(responses[Len(responses)])
        /\ script \in LoopScripts => NumRequests(responses[Len(responses)]) = 0

\* A session of two rounds that is Done with an empty text, its first
\* response having had text.
C13_Witness ==
    /\ pc = "Done"
    /\ script \in LoopScripts
    /\ Len(responses) >= 2
    /\ Flatten(responses[1]) # <<>>
    /\ final_text = <<>>

(***************************************************************************)
(* The for loop as a function of the response it runs over: the handlers   *)
(* run in the order of the items of response.output, so another order of   *)
(* running them is another order of the same items.                        *)
(***************************************************************************)
RECURSIVE RoundOutcomes(_, _, _, _)
\* What the for loop can leave behind when it runs over items with the todos
\* file td, acc being the (call_id, payload) pairs made so far: one outcome
\* for every way the clock and the random generator can answer.
RoundOutcomes(s, items, td, acc) ==
    IF items = <<>> THEN {[results |-> acc, todos |-> td, raised |-> "none"]}
    ELSE LET item == Head(items)
         IN IF ~IsToolCall(s, item) THEN RoundOutcomes(s, Tail(items), td, acc)
            ELSE LET dec == json_loads(RawOf(s, item))
                 IN IF dec.raised # "none"
                    THEN {[results |-> acc, todos |-> td, raised |-> dec.raised]}
                    ELSE UNION {
                           LET r == call_tool(s, item.name, dec.value, td, env)
                           IN IF r.raised # "none"
                              THEN {[results |-> acc, todos |-> td, raised |-> r.raised]}
                              ELSE RoundOutcomes(s, Tail(items), r.todos,
                                       acc \cup {<<item.call_id, json_dumps(r.result)>>}) :
                           env \in EnvValues(s, item.name)}

\* The sets of (call_id, payload) pairs a round over items can end with.
ResultSets(s, items, td) == {o.results : o \in RoundOutcomes(s, items, td, {})}

\* The items of out in the order p.
Reordered(out, p) == [k \in 1..Len(out) |-> out[p[k]]]

\* Every handler of the round runs and completes.
AllComplete(s, out) ==
    \A k \in 1..Len(out) : IsRequest(out[k]) => FailureOf(out[k]) = "none"

\* The (call_id, payload) pairs the current round has appended to the log.
RoundResults ==
    {<<messages[j].call_id, messages[j].output>> :
        j \in {i \in (current_length + 1)..Len(messages) : IsResult(messages[i])}}

(***************************************************************************)
(* C14.  For a round whose N tool calls all run and complete, every order  *)
(* of running the handlers yields the same set of (call_id, payload)       *)
(* results, several add_todo calls (read-append-write on the todos file)   *)
(* included: the result sets a round can end with are the same for every   *)
(* order of its items, and the set the for loop has made when it is over   *)
(* is one that every other order can make as well.                         *)
(***************************************************************************)
C14_ResultSetIndependentOfOrder ==
    (script \in LoopScripts /\ pc = "ForLoop" /\ AllComplete(script, response.output)) =>
        \A p \in Permutations(1..Len(response.output)) :
            /\ idx = 1 =>
                  ResultSets(script, Reordered(response.output, p), todos)
                      = ResultSets(script, response.output, todos)
            /\ idx > Len(response.output) =>
                  RoundResults \in ResultSets(script, Reordered(response.output, p), NoFile)

\* A round of two add_todo calls with different todos has run to its end.
C14_Witness ==
    /\ script \in TodoScripts
    /\ pc = "ForLoop"
    /\ idx > Len(response.output)
    /\ Len(response.output) = 2
    /\ \A k \in 1..2 : IsRequest(response.output[k]) /\ response.output[k].name = "add_todo"
    /\ RawOf(script, response.output[1]) # RawOf(script, response.output[2])
    /\ Cardinality(RoundResults) = 2

(***************************************************************************)
(* The log as a function of the script and of the responses it was given.  *)
(* Two runs of a session against the same deterministic inference stub get *)
(* the same first response, so the same log after round 1, so the same     *)
(* second request and response, and so on: they end with the same log and  *)
(* text if log and text are determined by the script and the responses.    *)
(***************************************************************************)
\* The handlers a session has to do with are deterministic: neither the
\* clock nor the random generator has a say in any of its tool calls.
DeterministicHandlers ==
    \A rk \in Requests : Cardinality(EnvValues(script, ItemAt(rk).name)) = 1

RECURSIVE ReplayResults(_, _, _)
\* The result entries one round adds for items, from the todos file td, up to
\* the first call that raises.
ReplayResults(s, items, td) ==
    IF items = <<>> THEN [entries |-> <<>>, todos |-> td, raised |-> FALSE]
    ELSE LET item == Head(items)
         IN IF ~IsToolCall(s, item) THEN ReplayResults(s, Tail(items), td)
            ELSE LET dec == json_loads(RawOf(s, item))
                     env == CHOOSE e \in EnvValues(s, item.name) : TRUE
                     r == call_tool(s, item.name, dec.value, td, env)
                 IN IF dec.raised # "none" \/ r.raised # "none"
                    THEN [entries |-> <<>>, todos |-> td, raised |-> TRUE]
                    ELSE LET rest == ReplayResults(s, Tail(items), r.todos)
                         IN [entries |-> <<[type |-> "function_call_output",
                                            call_id |-> item.call_id,
                                            output |-> json_dumps(r.result)]>>
                                             \o rest.entries,
                             todos |-> rest.todos, raised |-> rest.raised]

RECURSIVE ReplayLoop(_, _, _, _, _)
\* The log of a looping script after the rounds of resps from round n on.
ReplayLoop(s, resps, n, log, td) ==
    IF n > Len(resps) THEN log
    ELSE LET round == ReplayResults(s, resps[n], td)
         IN IF round.raised THEN log \o resps[n] \o round.entries
            ELSE ReplayLoop(s, resps, n + 1, log \o resps[n] \o round.entries, round.todos)

\* The log of simple_price: the first response and the result of its first
\* tool call, if it has one that decodes and returns.
ReplayStream(s, resps, log) ==
    IF resps = <<>> \/ FirstToolCall(resps[1]) = None THEN log
    ELSE LET round == ReplayResults(s, <<FirstToolCall(resps[1])>>, NoFile)
         IN IF round.raised THEN log ELSE log \o resps[1] \o round.entries

Replay(s, resps) ==
    IF s \in LoopScripts
    THEN ReplayLoop(s, resps, 1, <<system_message, user_message>>, NoFile)
    ELSE ReplayStream(s, resps, <<system_message, user_message>>)

Handled == SubSeq(stream.events, 1, stream.next - 1)

\* The item ids whose input-done event has been handled.
InputDone ==
    {Handled[j].item_id :
        j \in {i \in 1..Len(Handled) :
                 Handled[i].type = "response.custom_tool_call_input.done"}}

RECURSIVE Joined(_, _)
\* The fragments the events hold for an item id, joined in arrival order.
Joined(events, item_id) ==
    IF events = <<>> THEN ""
    ELSE (IF /\ Head(events).type = "response.custom_tool_call_input.delta"
             /\ Head(events).item_id = item_id
          THEN Head(events).delta ELSE "")
         \o Joined(Tail(events), item_id)

\* What a buffered call returns for the item: the input of the item of the
\* whole response.
BufferedInput(item_id) == stream.final.output[item_id].input

(***************************************************************************)
(* C16.  In streaming mode, for every item id whose input-done event has   *)
(* been handled, the buffer kept for that id is the fragments of that item *)
(* joined in arrival order and equals the whole input string the buffered  *)
(* response holds for the same tool call, and so does the whole input      *)
(* noted at that event; no buffer holds anything of another item.          *)
(***************************************************************************)
C16_FragmentsAssembleWholeInput ==
    /\ \A id \in InputDone :
          /\ id \in DOMAIN tool_input_buffers
          /\ tool_input_buffers[id] = Joined(Handled, id)
          /\ tool_input_buffers[id] = BufferedInput(id)
          /\ id \in DOMAIN full_input /\ full_input[id] = BufferedInput(id)
    /\ \A id \in DOMAIN tool_input_buffers :
          tool_input_buffers[id] = Joined(Handled, id)

\* Two tool calls with different inputs, each sent in more than one
\* fragment, have both had their input-done event.
C16_Witness ==
    /\ Cardinality(InputDone) = 2
    /\ \A id \in InputDone :
          Cardinality({j \in 1..Len(Handled) :
                          /\ Handled[j].type = "response.custom_tool_call_input.delta"
                          /\ Handled[j].item_id = id}) >= 2
    /\ \E a, b \in InputDone : BufferedInput(a) # BufferedInput(b)

\* The item id of the tool call main() picked.
PickedId == CHOOSE k \in 1..Len(stream.final.output) : stream.final.output[k] = tool_call

(***************************************************************************)
(* C17.  In streaming mode no tool handler is invoked while the event      *)
(* stream is being consumed: as long as events are read nothing is picked, *)
(* dispatched or appended, and a tool call that has been dispatched was    *)
(* dispatched after the last event, out of the assembled response, with    *)
(* the complete input string (all fragments of its item), its decoded      *)
(* arguments being those of the complete string.                           *)
(***************************************************************************)
C17_DispatchAfterStreamEnd ==
    script \in StreamScripts =>
        /\ pc = "Streaming" =>
              /\ tool_call = None
              /\ tool_outputs = <<>>
              /\ NumResults(messages) = 0
              /\ response = NoResponse
        /\ tool_call # None =>
              /\ Handled = stream.events
              /\ pc # "Done" => response = stream.final
              /\ tool_call.input = Joined(stream.events, PickedId)
              /\ \A j \in 1..Len(tool_outputs) :
                    tool_outputs[j].args = json_loads(Joined(stream.events, PickedId)).value

\* A tool call that came in several fragments has been dispatched.
C17_Witness ==
    /\ tool_call # None
    /\ Len(tool_outputs) = 1
    /\ NumResults(messages) = 1
    /\ Cardinality({j \in 1..Len(stream.events) :
                      /\ stream.events[j].type = "response.custom_tool_call_input.delta"
                      /\ stream.events[j].item_id = PickedId}) >= 2

(***************************************************************************)
(* C18.  The tool declarations of a session are fixed before the first     *)
(* inference call and passed unchanged to every inference call: no request *)
(* is made before the declarations are set, from then on they are at every *)
(* step the declarations of the script, and every request of the session   *)
(* carries exactly them.                                                   *)
(***************************************************************************)
C18_DeclarationsFixed ==
    /\ pc = "Start" => sent_tools = <<>>
    /\ pc # "Start" => tools = ToolDeclarations(script)
    /\ Len(sent_tools) = Len(sent)
    /\ \A n \in 1..Len(sent_tools) :
          /\ sent_tools[n] = ToolDeclarations(script)
          /\ sent_tools[n] # {}

\* A session has made three requests, with tool calls dispatched in between.
C18_Witness ==
    /\ Len(sent_tools) >= 3
    /\ NumResults(messages) >= 2

(***************************************************************************)
(* A session whose responses mix the two calling conventions: next to the  *)
(* tool calls of the script's own type the service sends calls of the      *)
(* other type, naming tools the script declares.                           *)
(***************************************************************************)
OtherType(s) ==
    IF ToolItemType(s) = "function_call" THEN "custom_tool_call" ELSE "function_call"

\* Calls of the other convention to the script's declared tools.
OtherCalls(s) ==
    {[type |-> OtherType(s), name |-> c.name, raw |-> c.raw] :
        c \in {d \in ServiceCalls(s) :
                 d.name \in Declared(s) /\ json_loads(d.raw).raised = "none"}}

HoldsBoth(out) ==
    /\ \E k \in 1..Len(out) : out[k].type = "function_call"
    /\ \E k \in 1..Len(out) : out[k].type = "custom_tool_call"

\* The responses that hold a call of either convention.
MixedResponses(s, n, iss, room) ==
    { [output |-> Output(tpls, n, iss), output_text |-> Flatten(Output(tpls, n, iss))] :
        tpls \in { t \in UNION { [1..k -> ServiceItems(s) \cup OtherCalls(s)] :
                                   k \in 0..MaxItems } :
                     Len(t) + NumRequests(t) <= room /\ HoldsBoth(t) } }

\* client.responses.create(...) of a looping script returns a response that
\* mixes the conventions.
CreateMixed ==
    /\ pc = "AwaitingModel"
    /\ script \in LoopScripts
    /\ \E r \in MixedResponses(script, Len(sent) + 1, issued, MaxLog - Len(messages)) :
          /\ response' = r
          /\ responses' = Append(responses, r.output)
          /\ issued' = issued + NumRequests(r.output)
    /\ sent' = Append(sent, RequestInput(messages))
    /\ sent_tools' = Append(sent_tools, RequestTools(tools))
    /\ round_num' = (IF round_num = 0 THEN 1 ELSE round_num)
    /\ pc' = "LoopHead"
    /\ UNCHANGED streamVars
    /\ UNCHANGED <<script, messages, idx, current_length, tool_call, tool_outputs,
                   final_text, todos, artifact, fault, tools>>

NextMixed ==
    \/ Next
    \/ CreateMixed

SpecMixed == Init /\ [][NextMixed]_vars

(***************************************************************************)
(* C19.  One session can mix the two calling conventions: when the for     *)
(* loop has run over a response that holds both a function_call and a      *)
(* custom_tool_call, each of the two requests has been decoded, dispatched *)
(* and answered with a result.                                             *)
(* Stated as written; every script takes up one convention only and        *)
(* passes over the requests of the other.                                  *)
(***************************************************************************)
C19_BothConventionsAnswered ==
    (/\ script \in LoopScripts
     /\ pc = "ForLoop"
     /\ idx > Len(response.output)
     /\ HoldsBoth(response.output)) =>
        \A k \in 1..Len(response.output) :
            IsRequest(response.output[k]) => Answered(response.output[k])

(***************************************************************************)
(* What the snapshot of the session must hold, read off the history.       *)
(***************************************************************************)
\* The request of the session that a result entry answers.
RequestOf(entry) ==
    ItemAt(CHOOSE rk \in Requests : ItemAt(rk).call_id = entry.call_id)

\* The tool invocations of the session, in the order of their results.
Invocations ==
    LET results == SelectSeq(messages, IsResult)
    IN [j \in 1..Len(results) |->
           ToolOutputEntry(script, RequestOf(results[j]).name,
                           json_loads(RawOf(script, RequestOf(results[j]))).value,
                           results[j].output[2])]

SessionSnapshot ==
    LET text == Flatten(responses[Len(responses)])
    IN IF script = "email_triage"
       THEN FileOf([prompt |-> "user_prompt", tool_outputs_keys |-> Invocations,
                    final_text |-> text])
       ELSE IF script \in LoopScripts
       THEN FileOf([prompt |-> "user_prompt", tool_outputs |-> Invocations,
                    final_text |-> text])
       ELSE IF Invocations = <<>>
            THEN FileOf([prompt |-> "user_prompt", tool_called |-> FALSE,
                         final_text |-> text])
            ELSE FileOf([prompt |-> "user_prompt", tool_call |-> Invocations,
                         final_text |-> text])

(***************************************************************************)
(* C20.  The session snapshot is written once, at session end, and         *)
(* replaces any earlier artifact in full: from the start of the session    *)
(* until it is Done there is no artifact (the earlier one is removed and   *)
(* nothing is written yet), and once the session is Done the artifact      *)
(* holds this session's prompt, tool invocations and final text and        *)
(* nothing else.                                                           *)
(***************************************************************************)
C20_SnapshotWrittenOnceAtEnd ==
    script \in SnapshotScripts =>
        /\ pc \notin {"Start", "Done"} => artifact = NoFile
        /\ pc = "Done" => artifact = SessionSnapshot

\* A session with two dispatched tool calls is Done and has its snapshot.
C20_Witness ==
    /\ script \in SnapshotScripts
    /\ pc = "Done"
    /\ artifact.exists
    /\ Len(Invocations) >= 2
    /\ artifact.content.final_text # <<>>

(***************************************************************************)
(* C21.  When an inference call fails outright the session ends in         *)
(* Aborted with the failure on record (it reaches the caller as the        *)
(* uncaught exception), no step follows, so no further inference call and  *)
(* no tool dispatch, and the conversation log is exactly the input of the  *)
(* failing call.                                                           *)
(***************************************************************************)
C21_TransportFailureAborts ==
    fault = "APIError" =>
        /\ pc = "Aborted"
        /\ ~ENABLED Next
        /\ sent # <<>>
        /\ messages = sent[Len(sent)]
        /\ final_text = None

\* The second inference call of a looping script has failed, after a round
\* with a dispatched tool call.
C21_Witness ==
    /\ script \in LoopScripts
    /\ fault = "APIError"
    /\ Len(sent) = 2
    /\ NumResults(messages) >= 1

(***************************************************************************)
(* C22.  When a round is aborted in flight the conversation log is not     *)
(* left half-appended: in the Aborted state the log holds of the last      *)
(* round either nothing (it is the input of the round's request) or        *)
(* everything (the items of the response and one result for each of its    *)
(* tool requests).                                                         *)
(* Stated as written, of the looping scripts; an exception in the for loop *)
(* leaves the items of the response and the results made so far.           *)
(***************************************************************************)
C22_AbortedRoundAllOrNothing ==
    (script \in LoopScripts /\ pc = "Aborted" /\ responses # <<>>) =>
        LET r == Len(responses)
        IN \/ messages = sent[r]
           \/ /\ Len(messages) = Len(sent[r]) + Len(responses[r]) + NumRequests(responses[r])
              /\ \A k \in 1..Len(responses[r]) :
                    IsRequest(responses[r][k]) => Answered(responses[r][k])

(***************************************************************************)
(* C23.  When the first response holds no tool-invocation request the      *)
(* session makes one inference call and no more, no handler is invoked     *)
(* (nothing is dispatched, picked or stored) and no tool result enters the *)
(* conversation; it ends Done with the text of that response as terminal   *)
(* text, and is Aborted only if the stream broke off before its end.       *)
(***************************************************************************)
C23_NoToolFirstResponseEndsSession ==
    (responses # <<>> /\ NumRequests(responses[1]) = 0) =>
        /\ Len(sent) = 1 /\ Len(responses) = 1
        /\ NumResults(messages) = 0
        /\ tool_outputs = <<>> /\ tool_call = None /\ todos = NoFile
        /\ pc \in {"LoopHead", "ForLoop", "Streaming", "FindToolCall", "Done", "Aborted"}
        /\ pc = "Done" => final_text = Flatten(responses[1])
        /\ pc = "Aborted" => (script \in StreamScripts /\ fault = "APIError")
        /\ (pc = "ForLoop" /\ idx > Len(response.output)) => ~ENABLED NextRound

\* A session is Done after a first response of text only.
C23_Witness ==
    /\ pc = "Done"
    /\ Len(responses) = 1
    /\ NumRequests(responses[1]) = 0
    /\ final_text # <<>>

(***************************************************************************)
(* C24.  In a looping script, when rounds 1..k each hold a tool-invocation *)
(* request and round k+1 holds none, the session makes exactly k+1         *)
(* inference calls: a further call is made only after a round with a       *)
(* request, none is made after a round without, a session that is Done has *)
(* made one call per response with requests in all but the last, and each  *)
(* call carries one more result for every request of the round before it  *)
(* (two requests in round 1: both results are in the second call).         *)
(***************************************************************************)
C24_RoundsCountRequests ==
    script \in LoopScripts =>
        /\ \A n \in 1..Len(responses) :
              /\ n < Len(sent) => NumRequests(responses[n]) >= 1
              /\ NumRequests(responses[n]) = 0 => (n = Len(responses) /\ Len(sent) = n)
        /\ \A n \in 1..(Len(sent) - 1) :
              NumResults(sent[n + 1]) = NumResults(sent[n]) + NumRequests(responses[n])
        /\ pc = "Done" =>
              /\ Len(sent) = Len(responses)
              /\ NumRequests(responses[Len(responses)]) = 0

\* Two requests in round 1 and none in round 2: Done after two calls, both
\* results in the second.
C24_Witness ==
    /\ script \in LoopScripts
    /\ pc = "Done"
    /\ Len(sent) = 2
    /\ NumRequests(responses[1]) = 2
    /\ NumResults(sent[2]) = 2

(***************************************************************************)
(* C25.  In a looping script the round number, once the first inference    *)
(* call has been made, equals at every point of the loop the number of     *)
(* inference calls submitted so far.                                       *)
(* Stated as written; between "round_num += 1" and the next call the       *)
(* counter is one ahead.                                                   *)
(***************************************************************************)
C25_RoundEqualsCallsSubmitted ==
    (script \in LoopScripts /\ sent # <<>>
        /\ pc \in {"AwaitingModel", "LoopHead", "ForLoop"}) =>
        round_num = Len(sent)

(***************************************************************************)
(* C25, amended.  The round number is set to 1 when the first inference    *)
(* call has returned and grows by exactly 1 when a round with tool calls   *)
(* has been dispatched; while a response is worked on, and at the end of   *)
(* the session, it equals the number of inference calls submitted so far,  *)
(* and from "round_num += 1" until the next call is submitted it is one    *)
(* more: the number of the call about to be made.                          *)
(***************************************************************************)
C25_RoundCountsCalls ==
    script \in LoopScripts =>
        /\ sent = <<>> => round_num = 0
        /\ pc \in {"LoopHead", "ForLoop", "Done"} =>
              (round_num = Len(sent) /\ round_num = Len(responses) /\ round_num >= 1)
        /\ (pc = "AwaitingModel" /\ sent # <<>>) =>
              (round_num = Len(sent) + 1 /\ NumRequests(responses[Len(sent)]) >= 1)
        /\ pc = "Aborted" =>
              \/ round_num = Len(sent)
              \/ (fault = "APIError" /\ Len(sent) = 1 /\ round_num = 0)

\* The second call is about to be made, after a round of two tool calls.
C25_Witness ==
    /\ script \in LoopScripts
    /\ pc = "AwaitingModel"
    /\ round_num = 2
    /\ Len(sent) = 1
    /\ NumRequests(responses[1]) = 2
    /\ NumResults(messages) = 2

(***************************************************************************)
(* A running session goes on: the interpreter runs the next statement of   *)
(* main() as long as there is one.  Nothing is assumed of the service: an  *)
(* inference call may never return.                                        *)
(***************************************************************************)
ProgramStep ==
    \/ Setup
    \/ LoopHead
    \/ ForSkip
    \/ ForDispatch
    \/ ForRaise
    \/ Break
    \/ NextRound
    \/ StreamEvent
    \/ StreamEnd
    \/ NoToolCall
    \/ ExecTool
    \/ ExecRaise

SpecLive == Init /\ [][Next]_vars /\ WF_vars(ProgramStep)

(***************************************************************************)
(* C26.  In a looping script, a response whose tool calls all decode and   *)
(* return leads to the next inference call or to Done, and a response with *)
(* no tool-invocation request leads to Done; and the loop is never Done    *)
(* unless some response held no tool-invocation request, so it never       *)
(* reaches Done if the model requests a tool in every round.               *)
(***************************************************************************)
C26_NoToolResponseLeadsToDone ==
    /\ (script \in LoopScripts /\ pc = "LoopHead" /\ AllComplete(script, response.output))
           ~> (pc \in {"AwaitingModel", "Done"})
    /\ (script \in LoopScripts /\ pc = "LoopHead" /\ NumRequests(response.output) = 0)
           ~> (pc = "Done")
    /\ []((script \in LoopScripts /\ pc = "Done") =>
             \E n \in 1..Len(responses) : NumRequests(responses[n]) = 0)

\* A looping script is Done in its third round, after two rounds with tool
\* calls.
C26_Witness ==
    /\ script \in LoopScripts
    /\ pc = "Done"
    /\ Len(responses) = 3
    /\ NumRequests(responses[1]) >= 1 /\ NumRequests(responses[2]) >= 1

(***************************************************************************)
(* C27.  Within a round of a looping script all output items of the        *)
(* response are in the conversation, in their order, before any tool       *)
(* result of that round, and the tool results follow in the order in which *)
(* their requests appear in the response.                                  *)
(***************************************************************************)
\* The call ids of the requests of an output list, in order.
RequestIds(out) ==
    LET reqs == SelectSeq(out, IsRequest)
    IN [j \in 1..Len(reqs) |-> reqs[j].call_id]

\* The call ids of the entries the log holds behind the items of round r.
ResultIds(r) ==
    LET first == Len(sent[r]) + Len(responses[r]) + 1
        last == IF r < Len(sent) THEN Len(sent[r + 1]) ELSE Len(messages)
    IN [j \in 1..(last - first + 1) |-> messages[first + j - 1].call_id]

C27_ItemsThenResultsInOrder ==
    script \in LoopScripts =>
        \A r \in 1..Len(responses) :
            (r < Len(responses) \/ pc # "LoopHead") =>
                /\ SubSeq(messages, Len(sent[r]) + 1, Len(sent[r]) + Len(responses[r]))
                       = responses[r]
                /\ \A j \in RoundSegment(r) : IsResult(messages[j])
                /\ Len(ResultIds(r)) <= Len(RequestIds(responses[r]))
                /\ ResultIds(r) = SubSeq(RequestIds(responses[r]), 1, Len(ResultIds(r)))

\* A round of two tool calls has both results.
C27_Witness ==
    /\ script \in LoopScripts
    /\ pc = "ForLoop"
    /\ Len(response.output) = 2
    /\ NumRequests(response.output) = 2
    /\ Len(ResultIds(Len(responses))) = 2

(***************************************************************************)
(* C28.  simple_price makes at most two inference calls and dispatches at  *)
(* most one tool call, whatever the model returns: the call it picks is    *)
(* the first custom tool call of the first response, a dispatch puts all   *)
(* output items of that response and then the one result into the          *)
(* conversation, the second call is made only after that, and nothing of   *)
(* the second response is dispatched or appended.                          *)
(***************************************************************************)
C28_StreamScriptOneDispatch ==
    script \in StreamScripts =>
        /\ Len(sent) <= 2 /\ Len(responses) <= 2
        /\ NumResults(messages) <= 1 /\ Len(tool_outputs) <= 1
        /\ tool_call # None =>
              \E k \in 1..Len(responses[1]) :
                  /\ responses[1][k] = tool_call
                  /\ \A j \in 1..(k - 1) : ~IsRequest(responses[1][j])
        /\ NumResults(messages) = 1 =>
              /\ Len(messages) = Len(sent[1]) + Len(responses[1]) + 1
              /\ SubSeq(messages, 1, Len(messages) - 1) = sent[1] \o responses[1]
              /\ messages[Len(messages)].call_id = tool_call.call_id
        /\ Len(sent) = 2 => (NumResults(messages) = 1 /\ messages = sent[2])
        /\ (pc = "Done" /\ Len(responses) = 2) => ~ENABLED Next

\* Done after a first response of two tool calls and a summary response that
\* holds a tool call as well.
C28_Witness ==
    /\ script \in StreamScripts
    /\ pc = "Done"
    /\ NumRequests(responses[1]) = 2
    /\ Len(responses) = 2
    /\ NumRequests(responses[2]) >= 1
    /\ NumResults(messages) = 1

(***************************************************************************)
(* C29.  When a session that has started ends by a fault (an undeclared    *)
(* tool, arguments that do not decode, a handler that raises, a failed     *)
(* inference call), no snapshot artifact exists afterwards: that of an     *)
(* earlier session was removed at the start and none is written.           *)
(***************************************************************************)
C29_NoArtifactAfterFault ==
    (script \in SnapshotScripts /\ pc = "Aborted") =>
        /\ fault \in {"ValueError", "JSONDecodeError", "KeyError", "TypeError", "APIError"}
        /\ ~artifact.exists
        /\ final_text = None

\* A session has ended by the fault of a tool call after another tool call
\* had been dispatched and noted for the snapshot.
C29_Witness ==
    /\ script \in SnapshotScripts
    /\ pc = "Aborted"
    /\ fault # "APIError"
    /\ tool_outputs # <<>>

(***************************************************************************)
(* C30.  The todo store is emptied at session start and is append-only     *)
(* within a session: once main() has started, the todos file holds exactly *)
(* the decoded arguments of the add_todo calls dispatched so far, one      *)
(* record per call in dispatch order (no file while there was none), so    *)
(* each add_todo call leaves the records already stored as they are and    *)
(* nothing of an earlier session is left.                                  *)
(***************************************************************************)
\* The decoded arguments of the add_todo calls that have a result, in the
\* order of their results.
AddTodoArgs ==
    LET adds == SelectSeq(messages,
                          LAMBDA e : IsResult(e) /\ RequestOf(e).name = "add_todo")
    IN [j \in 1..Len(adds) |-> json_loads(RawOf(script, RequestOf(adds[j]))).value]

C30_TodoStoreAppendOnly ==
    (script \in TodoScripts /\ pc # "Start") =>
        /\ todos.exists <=> AddTodoArgs # <<>>
        /\ todos.content = AddTodoArgs

\* Two add_todo calls with different todos have been dispatched.
C30_Witness ==
    /\ script \in TodoScripts
    /\ Len(AddTodoArgs) = 2
    /\ AddTodoArgs[1] # AddTodoArgs[2]
    /\ todos.exists

=============================================================================
